---- MODULE Spec2Model ----
(***************************************************************************)
(* Model of backend/app.py: the date normaliser, the organization          *)
(* resolver, the last-date extraction cascade, the AI extraction           *)
(* orchestrator and the two analysis endpoints.                            *)
(*                                                                         *)
(* Python strings are TLA+ strings handled character by character          *)
(* (Len, SubSeq and \o work on strings in TLC).                             *)
(***************************************************************************)
EXTENDS Integers, Sequences, FiniteSets, TLC

VARIABLES
    \* normalize_date(date_str)
    nd_pc, date_str, normalized,
    \* is_reasonable_future_date(rf_date_str) at clock reading now
    rf_pc, rf_date_str, reasonable,
    \* detect_organization_from_text(text, provided_name)
    org_pc, text, provided_name, detected, resolved_again,
    \* extract_last_date_comprehensive(ld_text, ld_org_name) at clock reading now
    ld_pc, ld_text, ld_org_name, now, last_date,
    \* the module global mistral_client (TRUE: a client object, FALSE: None)
    mistral_client,
    \* analyze_single(file, organization) and analyze_with_ultra_strict_ai
    \* on the file's text; completion is what the completion service does
    ai_pc, file, organization, completion, analysis, single_response,
    \* analyze_forms(files, organizations): its locals, the log of what the
    \* completion service was asked and did, and the response
    bf_pc, files, organizations, org_names, idx, analyzed_results,
    processed_orgs, service_log, batch_response

vNorm == <<nd_pc, date_str, normalized>>
vFuture == <<rf_pc, rf_date_str, reasonable>>
vOrg == <<org_pc, text, provided_name, detected, resolved_again>>
vDate == <<ld_pc, ld_text, ld_org_name, now, last_date>>
vAI == <<ai_pc, file, organization, completion, analysis, single_response>>
vBatch == <<bf_pc, files, organizations, org_names, idx, analyzed_results,
            processed_orgs, service_log, batch_response>>
vars == <<vNorm, vFuture, vOrg, vDate, mistral_client, vAI, vBatch>>

-----------------------------------------------------------------------------
(* Python str primitives                                                   *)

Min(a, b) == IF a < b THEN a ELSE b
Max(a, b) == IF a > b THEN a ELSE b

\* s[i] (1-based); "" when out of range
Char(s, i) == IF i >= 1 /\ i <= Len(s) THEN SubSeq(s, i, i) ELSE ""

\* s[:n]
Prefix(s, n) == SubSeq(s, 1, Min(n, Len(s)))

\* s[i-1:] (1-based start)
Suffix(s, i) == IF i > Len(s) THEN "" ELSE SubSeq(s, Max(i, 1), Len(s))

DigitChars == {"0", "1", "2", "3", "4", "5", "6", "7", "8", "9"}
IsDigit(c) == c \in DigitChars
IsSpace(c) == c \in {" ", "\n", "\t"}

DigitVal(c) ==
    CASE c = "0" -> 0 [] c = "1" -> 1 [] c = "2" -> 2 [] c = "3" -> 3
      [] c = "4" -> 4 [] c = "5" -> 5 [] c = "6" -> 6 [] c = "7" -> 7
      [] c = "8" -> 8 [] c = "9" -> 9

\* c * n
RECURSIVE Rep(_, _)
Rep(c, n) ==
    IF n <= 0 THEN ""
    ELSE IF n = 1 THEN c
    ELSE Rep(c, n \div 2) \o Rep(c, n - (n \div 2))

\* key in s
Contains(s, key) ==
    \E i \in 1..(Len(s) - Len(key) + 1) : SubSeq(s, i, i + Len(key) - 1) = key

\* s.startswith(key, i-1)
StartsAt(s, i, key) ==
    /\ i >= 1
    /\ i + Len(key) - 1 <= Len(s)
    /\ SubSeq(s, i, i + Len(key) - 1) = key

\* s.endswith(key)
EndsWith(s, key) ==
    Len(s) >= Len(key) /\ SubSeq(s, Len(s) - Len(key) + 1, Len(s)) = key

\* s.replace(a, b) for a one-character a
RECURSIVE replace(_, _, _)
replace(s, a, b) ==
    IF Len(s) = 0 THEN ""
    ELSE IF Len(s) = 1 THEN (IF s = a THEN b ELSE s)
    ELSE replace(SubSeq(s, 1, Len(s) \div 2), a, b)
         \o replace(SubSeq(s, (Len(s) \div 2) + 1, Len(s)), a, b)

\* s.split(sep) for a one-character sep: always at least one part
split(s, sep) ==
    LET cuts == {i \in 1..Len(s) : Char(s, i) = sep}
        nth(k) == CHOOSE i \in cuts : Cardinality({j \in cuts : j < i}) = k - 1
        n == Cardinality(cuts)
    IN  [k \in 1..(n + 1) |->
            SubSeq(s, IF k = 1 THEN 1 ELSE nth(k - 1) + 1,
                      IF k = n + 1 THEN Len(s) ELSE nth(k) - 1)]

\* s.zfill(width): zeros go after a leading sign
zfill(s, width) ==
    IF Len(s) >= width THEN s
    ELSE IF Char(s, 1) \in {"+", "-"}
         THEN Char(s, 1) \o Rep("0", width - Len(s)) \o Suffix(s, 2)
         ELSE Rep("0", width - Len(s)) \o s

\* s.strip()
RECURSIVE lstrip(_)
lstrip(s) == IF Len(s) > 0 /\ IsSpace(Char(s, 1)) THEN lstrip(Suffix(s, 2)) ELSE s

RECURSIVE rstrip(_)
rstrip(s) ==
    IF Len(s) > 0 /\ IsSpace(Char(s, Len(s))) THEN rstrip(SubSeq(s, 1, Len(s) - 1)) ELSE s

strip(s) == rstrip(lstrip(s))

UpperLetters == "ABCDEFGHIJKLMNOPQRSTUVWXYZ"
LowerLetters == "abcdefghijklmnopqrstuvwxyz"

LowerMap ==
    [c \in {Char(UpperLetters, i) : i \in 1..26} |->
        Char(LowerLetters, CHOOSE i \in 1..26 : Char(UpperLetters, i) = c)]

UpperMap ==
    [c \in {Char(LowerLetters, i) : i \in 1..26} |->
        Char(UpperLetters, CHOOSE i \in 1..26 : Char(LowerLetters, i) = c)]

\* s.lower()
RECURSIVE lower(_)
lower(s) ==
    IF Len(s) = 0 THEN ""
    ELSE IF Len(s) = 1 THEN (IF s \in DOMAIN LowerMap THEN LowerMap[s] ELSE s)
    ELSE lower(SubSeq(s, 1, Len(s) \div 2)) \o lower(SubSeq(s, (Len(s) \div 2) + 1, Len(s)))

\* s.upper()
RECURSIVE upper(_)
upper(s) ==
    IF Len(s) = 0 THEN ""
    ELSE IF Len(s) = 1 THEN (IF s \in DOMAIN UpperMap THEN UpperMap[s] ELSE s)
    ELSE upper(SubSeq(s, 1, Len(s) \div 2)) \o upper(SubSeq(s, (Len(s) \div 2) + 1, Len(s)))

AllDigits(s) == \A i \in 1..Len(s) : IsDigit(Char(s, i))

\* int(s) succeeds: surrounding whitespace and one leading sign are accepted
\* (digit-group underscores are outside the modelled alphabet)
IntBody(s) ==
    LET t == strip(s) IN IF Char(t, 1) \in {"+", "-"} THEN Suffix(t, 2) ELSE t

IntOk(s) == Len(IntBody(s)) > 0 /\ AllDigits(IntBody(s))

RECURSIVE DigitsVal(_)
DigitsVal(s) ==
    IF Len(s) = 0 THEN 0
    ELSE 10 * DigitsVal(SubSeq(s, 1, Len(s) - 1)) + DigitVal(Char(s, Len(s)))

\* str(n) for a natural number n
DigitChar(d) == SubSeq("0123456789", d + 1, d + 1)

RECURSIVE NatStr(_)
NatStr(n) == IF n < 10 THEN DigitChar(n) ELSE NatStr(n \div 10) \o DigitChar(n % 10)

\* int(s), defined when IntOk(s)
int(s) ==
    IF Char(strip(s), 1) = "-" THEN 0 - DigitsVal(IntBody(s)) ELSE DigitsVal(IntBody(s))

-----------------------------------------------------------------------------
(* normalize_date                                                          *)

normalize_date_mut_noexpand(ds) ==
    LET replaced == replace(replace(ds, "/", "-"), ".", "-")
        parts == split(replaced, "-")
    IN  IF Len(parts) # 3 THEN ""
        ELSE LET day == zfill(parts[1], 2)
                 month == zfill(parts[2], 2)
                 year == parts[3]
             IN  IF ~IntOk(day) THEN ""
                 ELSE IF ~(1 <= int(day) /\ int(day) <= 31) THEN ""
                 ELSE IF ~IntOk(month) THEN ""
                 ELSE IF ~(1 <= int(month) /\ int(month) <= 12) THEN ""
                 ELSE IF ~IntOk(year) THEN ""
                 ELSE IF Len(year) = 2 /\ 24 <= int(year) /\ int(year) <= 26
                      THEN day \o "-" \o month \o "-" \o year
                 ELSE IF 2024 <= int(year) /\ int(year) <= 2026
                      THEN day \o "-" \o month \o "-" \o year
                 ELSE ""

normalize_date(ds) ==
    LET replaced == replace(replace(ds, "/", "-"), ".", "-")
        parts == split(replaced, "-")
    IN  IF Len(parts) # 3 THEN ""
        ELSE LET day == zfill(parts[1], 2)
                 month == zfill(parts[2], 2)
                 year == IF Len(parts[3]) = 2 THEN "20" \o parts[3] ELSE parts[3]
             IN  \* int() raising ValueError lands in the bare except: ""
                 IF ~IntOk(day) THEN ""
                 ELSE IF ~(1 <= int(day) /\ int(day) <= 31) THEN ""
                 ELSE IF ~IntOk(month) THEN ""
                 ELSE IF ~(1 <= int(month) /\ int(month) <= 12) THEN ""
                 ELSE IF ~IntOk(year) THEN ""
                 ELSE IF 2024 <= int(year) /\ int(year) <= 2026
                      THEN day \o "-" \o month \o "-" \o year
                 ELSE ""

-----------------------------------------------------------------------------
(* detect_organization_from_text                                           *)

\* the dict in insertion order: Python iterates it in this order
ORGANIZATION_MAPPINGS ==
    << <<"ntpc", "NTPC">>, <<"ngel", "NTPC">>, <<"green energy", "NTPC">>,
       <<"tanuvas", "TANUVAS">>, <<"tamil nadu veterinary", "TANUVAS">>,
       <<"csir", "CSIR">>, <<"council of scientific", "CSIR">>,
       <<"nhm", "NHM">>, <<"national health mission", "NHM">>,
       <<"aau", "AAU">>, <<"assam agricultural", "AAU">> >>

KNOWN_LAST_DATES ==
    [o \in {"NTPC", "TANUVAS", "CSIR", "NHM", "AAU"} |->
        CASE o = "NTPC" -> "01-05-2025"
          [] o = "TANUVAS" -> "15-02-2025"
          [] o = "CSIR" -> "15-02-2025"
          [] o = "NHM" -> "31-01-2025"
          [] o = "AAU" -> "31-01-2025"]

HeaderLen == 500

\* for key, org in ORGANIZATION_MAPPINGS.items(): if key in s: return org
\* (key in s, decided for all keys from the positions where some key can start)
KeyInitials == {Char(ORGANIZATION_MAPPINGS[k][1], 1) : k \in 1..Len(ORGANIZATION_MAPPINGS)}

MatchingKeys(s) ==
    LET starts == {i \in 1..Len(s) : Char(s, i) \in KeyInitials}
    IN  {k \in 1..Len(ORGANIZATION_MAPPINGS) :
            \E i \in starts : StartsAt(s, i, ORGANIZATION_MAPPINGS[k][1])}

FirstMappedOrg(s) ==
    LET ks == MatchingKeys(s)
    IN  ORGANIZATION_MAPPINGS[CHOOSE k \in ks : \A j \in ks : k <= j][2]

detect_organization_mut_bodyfirst(txt, name) ==
    IF name # "" /\ lower(name) \notin {"unknown", "organization"}
    THEN LET provided_clean == upper(strip(name))
         IN  IF MatchingKeys(lower(provided_clean)) # {}
             THEN FirstMappedOrg(lower(provided_clean))
             ELSE provided_clean
    ELSE LET text_lower == lower(txt)
         IN  IF MatchingKeys(text_lower) # {} THEN FirstMappedOrg(text_lower)
             ELSE IF name # "" THEN name
             ELSE "Unknown Organization"

detect_organization_from_text(txt, name) ==
    IF name # "" /\ lower(name) \notin {"unknown", "organization"}
    THEN LET provided_clean == upper(strip(name))
         IN  IF MatchingKeys(lower(provided_clean)) # {}
             THEN FirstMappedOrg(lower(provided_clean))
             ELSE provided_clean
    ELSE LET text_lower == lower(txt)
             header == lower(Prefix(txt, HeaderLen))
         IN  IF MatchingKeys(header) # {} THEN FirstMappedOrg(header)
             ELSE IF MatchingKeys(text_lower) # {} THEN FirstMappedOrg(text_lower)
             ELSE IF name # "" THEN name
             ELSE "Unknown Organization"

-----------------------------------------------------------------------------
(* The regular expressions of extract_last_date_comprehensive              *)
(*                                                                         *)
(* A pattern is a sequence of elements: a literal (matched ignoring case,  *)
(* re.IGNORECASE), "ws" for \s+, "lazy" for .*? (any characters but a      *)
(* newline, as few as possible) and "date" for                             *)
(* (\d{1,2}[-./]\d{1,2}[-./]\d{lo,hi}), whose text is the captured group.  *)

Lit(w) == [t |-> "lit", s |-> w, lo |-> 0, hi |-> 0]
Ws == [t |-> "ws", s |-> "", lo |-> 0, hi |-> 0]
Lazy == [t |-> "lazy", s |-> "", lo |-> 0, hi |-> 0]
DateTok(lo, hi) == [t |-> "date", s |-> "", lo |-> lo, hi |-> hi]

NoMatch == [ok |-> FALSE, e |-> 0, g |-> ""]

\* number of whitespace characters of s from position i on
RECURSIVE SpaceRun(_, _)
SpaceRun(s, i) == IF IsSpace(Char(s, i)) THEN 1 + SpaceRun(s, i + 1) ELSE 0

\* position of the first newline of s at or after i, Len(s) + 1 if none
LineEnd(s, i) ==
    LET ends == {j \in i..Len(s) : Char(s, j) = "\n"} \cup {Len(s) + 1}
    IN  CHOOSE j \in ends : \A x \in ends : j <= x

\* \d{d1}[-./]\d{d2}[-./]\d{y} matches s at i
DateShapeAt(s, i, d1, d2, y) ==
    /\ i + d1 + d2 + y + 1 <= Len(s)
    /\ AllDigits(SubSeq(s, i, i + d1 - 1))
    /\ Char(s, i + d1) \in {"-", ".", "/"}
    /\ AllDigits(SubSeq(s, i + d1 + 1, i + d1 + d2))
    /\ Char(s, i + d1 + d2 + 1) \in {"-", ".", "/"}
    /\ AllDigits(SubSeq(s, i + d1 + d2 + 2, i + d1 + d2 + y + 1))

\* the digit counts the backtracking matcher tries, greedy first
DateAlternatives(lo, hi) ==
    [n \in 1..(4 * (hi - lo + 1)) |->
        <<2 - ((n - 1) \div (2 * (hi - lo + 1))),
          2 - (((n - 1) \div (hi - lo + 1)) % 2),
          hi - ((n - 1) % (hi - lo + 1))>>]

\* the match of elements k.. of pat against s from position i, as the
\* backtracking matcher finds it: [ok, e (position after the match), g (group 1)]
RECURSIVE Match(_, _, _, _, _)
RECURSIVE MatchWs(_, _, _, _, _, _)
RECURSIVE MatchLazy(_, _, _, _, _, _)
RECURSIVE MatchDate(_, _, _, _, _, _)

\* \s+ is greedy: the longest run of m whitespace characters first
MatchWs(pat, k, s, i, g, m) ==
    IF m < 1 THEN NoMatch
    ELSE LET r == Match(pat, k + 1, s, i + m, g)
         IN  IF r.ok THEN r ELSE MatchWs(pat, k, s, i, g, m - 1)

\* .*? is lazy: the rest is tried at each position from lo to hi (the end of
\* the line) in turn, the first success wins
MatchLazy(pat, k, s, lo, g, hi) ==
    IF lo > hi THEN NoMatch
    ELSE IF lo = hi THEN Match(pat, k + 1, s, lo, g)
    ELSE LET mid == (lo + hi) \div 2
             r == MatchLazy(pat, k, s, lo, g, mid)
         IN  IF r.ok THEN r ELSE MatchLazy(pat, k, s, mid + 1, g, hi)

MatchDate(pat, k, s, i, alts, n) ==
    IF n > Len(alts) THEN NoMatch
    ELSE LET w == alts[n][1] + alts[n][2] + alts[n][3] + 2
             r == IF DateShapeAt(s, i, alts[n][1], alts[n][2], alts[n][3])
                  THEN Match(pat, k + 1, s, i + w, SubSeq(s, i, i + w - 1))
                  ELSE NoMatch
         IN  IF r.ok THEN r ELSE MatchDate(pat, k, s, i, alts, n + 1)

Match(pat, k, s, i, g) ==
    IF k > Len(pat) THEN [ok |-> TRUE, e |-> i, g |-> g]
    ELSE LET el == pat[k] IN
      CASE el.t = "lit" ->
             IF /\ i + Len(el.s) - 1 <= Len(s)
                /\ lower(Char(s, i)) = Char(el.s, 1)
                /\ lower(SubSeq(s, i, i + Len(el.s) - 1)) = el.s
             THEN Match(pat, k + 1, s, i + Len(el.s), g)
             ELSE NoMatch
        [] el.t = "ws" -> MatchWs(pat, k, s, i, g, SpaceRun(s, i))
        [] el.t = "lazy" -> MatchLazy(pat, k, s, i, g, LineEnd(s, i))
        [] el.t = "date" ->
             IF IsDigit(Char(s, i))
             THEN MatchDate(pat, k, s, i, DateAlternatives(el.lo, el.hi), 1)
             ELSE NoMatch

\* the leftmost match of pat in s that starts at one of the positions lo..hi
RECURSIVE SearchIn(_, _, _, _)
SearchIn(pat, s, lo, hi) ==
    IF lo > hi THEN NoMatch
    ELSE IF lo = hi THEN Match(pat, 1, s, lo, "")
    ELSE LET mid == (lo + hi) \div 2
             m == SearchIn(pat, s, lo, mid)
         IN  IF m.ok THEN m ELSE SearchIn(pat, s, mid + 1, hi)

\* re.search(pat, s) from position start on
SearchFrom(pat, s, start) == SearchIn(pat, s, start, Len(s))

\* re.findall(pat, s): group 1 of every non-overlapping match, left to right
RECURSIVE FindAllFrom(_, _, _)
FindAllFrom(pat, s, start) ==
    LET m == SearchFrom(pat, s, start)
    IN  IF ~m.ok THEN <<>> ELSE <<m.g>> \o FindAllFrom(pat, s, m.e)

findall(pat, s) == FindAllFrom(pat, s, 1)

-----------------------------------------------------------------------------
(* is_reasonable_future_date and extract_last_date_comprehensive           *)

\* date_patterns, in list order: <<pattern, source>>
date_patterns ==
    << <<(<<Lit("last"), Ws, Lit("date"), Lazy, DateTok(2, 4)>>), "last date keyword">>,
       <<(<<Lit("closing"), Ws, Lit("date"), Lazy, DateTok(2, 4)>>), "closing date">>,
       <<(<<Lit("submit"), Lazy, Lit("by"), Lazy, DateTok(2, 4)>>), "submit by">>,
       <<(<<Lit("application"), Lazy, Lit("till"), Lazy, DateTok(2, 4)>>), "application till">>,
       <<(<<Lit("deadline"), Lazy, DateTok(2, 4)>>), "deadline">>,
       <<(<<Lit("before"), Lazy, DateTok(2, 4)>>), "before date">>,
       <<(<<Lit("within"), Lazy, DateTok(2, 4)>>), "within date">>,
       <<(<<DateTok(4, 4), Lazy, Lit("last")>>), "reverse last">>,
       <<(<<Lit("online"), Ws, Lit("application"), Lazy, DateTok(2, 4)>>), "online application">> >>

\* r'(\d{1,2}[-./]\d{1,2}[-./]\d{2,4})' and r'\d{1,2}[-./]\d{1,2}[-./]\d{4}'
AnyDatePattern == <<DateTok(2, 4)>>
FullYearDatePattern == <<DateTok(4, 4)>>

section_keywords == <<"last date", "closing", "deadline", "till">>

IsLeap(y) == (y % 4 = 0 /\ y % 100 # 0) \/ y % 400 = 0

DaysInMonth(y, m) ==
    IF m \in {4, 6, 9, 11} THEN 30
    ELSE IF m = 2 THEN (IF IsLeap(y) THEN 29 ELSE 28)
    ELSE 31

\* datetime(year, month, day) does not raise ValueError
IsCalendarDate(y, m, d) ==
    y \in 1..9999 /\ m \in 1..12 /\ d >= 1 /\ d <= DaysInMonth(y, m)

\* <<y, m, d>> order of two days
DayBefore(a, b) ==
    \/ a[1] < b[1]
    \/ a[1] = b[1] /\ a[2] < b[2]
    \/ a[1] = b[1] /\ a[2] = b[2] /\ a[3] < b[3]

future_limit == <<2025, 12, 31>>

is_reasonable_future_date_mut_inclusive(ds, clock) ==
    LET parts == split(ds, "-")
    IN  IF Len(parts) # 3 THEN FALSE
        ELSE IF ~(IntOk(parts[1]) /\ IntOk(parts[2]) /\ IntOk(parts[3])) THEN FALSE
        ELSE LET day == int(parts[1])
                 month == int(parts[2])
                 year == int(parts[3])
             IN  /\ IsCalendarDate(year, month, day)
                 /\ DayBefore(clock, <<year, month, day>>)
                 /\ ~DayBefore(future_limit, <<year, month, day>>)

\* clock is the day <<y, m, d>> of datetime.now(): date_obj is a midnight, so
\* now < date_obj exactly when today is an earlier day, whatever the time of day
is_reasonable_future_date(ds, clock) ==
    LET parts == split(ds, "-")
    IN  IF Len(parts) # 3 THEN FALSE
        ELSE IF ~(IntOk(parts[1]) /\ IntOk(parts[2]) /\ IntOk(parts[3])) THEN FALSE
        ELSE LET day == int(parts[1])
                 month == int(parts[2])
                 year == int(parts[3])
             IN  /\ IsCalendarDate(year, month, day)
                 /\ DayBefore(clock, <<year, month, day>>)
                 /\ DayBefore(<<year, month, day>>, future_limit)

NotFound == <<"", "not found">>

\* the least index of vals holding a non-empty string, 0 if there is none
FirstNonEmpty(vals) ==
    LET good == {n \in DOMAIN vals : vals[n] # ""}
    IN  IF good = {} THEN 0 ELSE CHOOSE a \in good : \A x \in good : a <= x

\* the first non-empty of the dates a method found, under the method's label
FirstDateOf(dates, label) ==
    LET k == FirstNonEmpty(dates)
    IN  IF k = 0 THEN NotFound ELSE <<dates[k], label>>

LastNormalized_mut_first(matches) ==
    IF matches = <<>> THEN "" ELSE normalize_date(matches[1])

\* matches[-1], normalised
LastNormalized(matches) ==
    IF matches = <<>> THEN "" ELSE normalize_date(matches[Len(matches)])

CascadeOf(lastOf) ==
    LET k == FirstNonEmpty(lastOf)
    IN  IF k = 0 THEN NotFound ELSE <<lastOf[k], date_patterns[k][2]>>

\* Method 1: per pattern the last match, the first pattern whose last match
\* normalises
KeywordCascade(txt) ==
    CascadeOf([k \in 1..Len(date_patterns) |->
                  LastNormalized(findall(date_patterns[k][1], txt))])

NormalizedMatch(date_match) ==
    IF date_match.ok THEN normalize_date(date_match.g) ELSE ""

\* the date of a line with a section keyword: its first date, normalised
SectionDate(section) ==
    IF \E j \in 1..Len(section_keywords) :
           Contains(lower(section), section_keywords[j])
    THEN NormalizedMatch(SearchFrom(AnyDatePattern, section, 1))
    ELSE ""

SectionDates(sections) == [n \in 1..Len(sections) |-> SectionDate(sections[n])]

\* Method 2: the first line with a section keyword whose first date normalises
LineScan(txt) == FirstDateOf(SectionDates(split(txt, "\n")), "section scan")

KnownFallback_mut_none(org) == NotFound

\* Method 3: the organization's known deadline
KnownFallback(org) ==
    IF org \in DOMAIN KNOWN_LAST_DATES
    THEN <<KNOWN_LAST_DATES[org], "known fallback">>
    ELSE NotFound

\* a normalised date that is a reasonable future date, "" otherwise
FutureDate(normalized_date, clock) ==
    IF normalized_date # "" /\ is_reasonable_future_date(normalized_date, clock)
    THEN normalized_date ELSE ""

FutureDates(all_dates, clock) ==
    [n \in 1..Len(all_dates) |-> FutureDate(normalize_date(all_dates[n]), clock)]

\* Method 4: the first full-year date that is a reasonable future date
HeuristicScan(txt, clock) ==
    FirstDateOf(FutureDates(findall(FullYearDatePattern, txt), clock), "heuristic scan")

\* the result of a method if it found a date, else that of the next
OrElse(found, next) == IF found # NotFound THEN found ELSE next

extract_last_date_mut_fallbackfirst(txt, org, clock) ==
    OrElse(KnownFallback(org),
           OrElse(KeywordCascade(txt),
                  OrElse(LineScan(txt), HeuristicScan(txt, clock))))

extract_last_date_comprehensive(txt, org, clock) ==
    OrElse(KeywordCascade(txt),
           OrElse(LineScan(txt),
                  OrElse(KnownFallback(org), HeuristicScan(txt, clock))))

-----------------------------------------------------------------------------
(* extract_text_from_pdf                                                   *)

\* raise HTTPException(status_code, detail); status 200 is a normal return
HTTPException(status, detail) == [status |-> status, detail |-> detail]
Returned == HTTPException(200, "")

\* str(e) of an HTTPException: "<status_code>: <detail>"
StrOfHTTPException(e) == NatStr(e.status) \o ": " \o e.detail

MarkerLen == 60

\* the text block of page n (1-based) and the blocks joined by "\n"
RECURSIVE PageBlocks(_, _)
PageBlocks(pages, n) ==
    IF n > Len(pages) THEN ""
    ELSE (IF n > 1 THEN "\n" ELSE "")
         \o "\n" \o Rep("=", MarkerLen) \o "\nPAGE " \o NatStr(n) \o "\n"
         \o Rep("=", MarkerLen) \o "\n" \o pages[n]
         \o PageBlocks(pages, n + 1)

\* a PDF is [readable, pages]: PdfReader or extract_text raising on an
\* unreadable one is turned into HTTPException 400
extract_text_from_pdf(pdf) ==
    IF pdf.readable
    THEN [error |-> Returned, text |-> PageBlocks(pdf.pages, 1)]
    ELSE [error |-> HTTPException(400, "PDF extraction failed: " \o pdf.fault), text |-> ""]

-----------------------------------------------------------------------------
(* analyze_with_ultra_strict_ai                                            *)

\* JSON values of a record's fields
Js(v) == [t |-> "str", v |-> v]
JNull == [t |-> "null", v |-> ""]
JNum(v) == [t |-> "num", v |-> v]

\* bool(value)
Truthy(j) ==
    CASE j.t = "str" -> j.v # ""
      [] j.t = "null" -> FALSE
      [] j.t = "num" -> j.v # "0"

required_fields_mut_short ==
    <<"advertisement_number", "advertisement_date", "post_name", "vacancies",
      "last_date", "salary", "location", "age_limit", "category", "qualification",
      "mandatory", "specialization", "experience_years">>

required_fields ==
    <<"advertisement_number", "advertisement_date", "post_name", "vacancies",
      "last_date", "salary", "location", "age_limit", "category", "qualification",
      "mandatory", "specialization", "experience_years", "remarks">>

RequiredKeys == {required_fields[n] : n \in 1..Len(required_fields)}

\* what one pass of the post-processing loop does to a parsed item:
\* [raised (message of the exception, "" if none), pos (the item afterwards)]
RepairPosition(item, auto_last_date, detected_org) ==
    IF ~item.dict
    THEN [raised |-> "TypeError: item assignment", pos |-> item.fields]
    ELSE LET filled == [k \in DOMAIN item.fields \cup RequiredKeys |->
                           IF k \in DOMAIN item.fields THEN item.fields[k] ELSE Js("")]
             last == filled["last_date"]
             salary == filled["salary"]
         IN  IF Truthy(last) /\ last.t # "str"
             THEN [raised |-> "AttributeError: no attribute 'lower'", pos |-> filled]
             ELSE LET punted == \/ ~Truthy(last)
                                \/ Contains(lower(last.v), "check")
                                \/ Contains(lower(last.v), "manual")
                      repaired ==
                          IF punted /\ auto_last_date # ""
                          THEN [filled EXCEPT !["last_date"] = Js(auto_last_date)]
                          ELSE IF punted /\ detected_org \in DOMAIN KNOWN_LAST_DATES
                          THEN [filled EXCEPT
                                   !["last_date"] = Js(KNOWN_LAST_DATES[detected_org])]
                          ELSE filled
                  IN  IF Truthy(salary) /\ salary.t # "str"
                      THEN [raised |-> "AttributeError: no attribute 'lower'",
                            pos |-> repaired]
                      ELSE [raised |-> "", pos |-> repaired]

\* f"{x:.0f}" of 100 * part / whole: to the nearest integer, ties to even
PercentStr(part, whole) ==
    LET q == (100 * part) \div whole
        r2 == 2 * ((100 * part) % whole)
        n == IF r2 > whole \/ (r2 = whole /\ q % 2 = 1) THEN q + 1 ELSE q
    IN  NatStr(n) \o "%"

NoAnalysis ==
    [organization |-> "", positions |-> <<>>, total_positions |-> 0,
     extraction_quality |->
        [last_date_coverage |-> "", salary_coverage |-> "",
         auto_last_date |-> "", date_source |-> ""]]

Raise(e) == [error |-> e, result |-> NoAnalysis]

\* the statistics and the returned dict, or the exception of the first item
\* the post-processing loop raised on
Summarize(detected_org, found, repaired) ==
    LET failing == {n \in DOMAIN repaired : repaired[n].raised # ""}
        positions == [n \in DOMAIN repaired |-> repaired[n].pos]
        total_pos == Len(positions)
        missing_dates == Cardinality({n \in 1..total_pos : ~Truthy(positions[n]["last_date"])})
        missing_salary == Cardinality({n \in 1..total_pos : ~Truthy(positions[n]["salary"])})
    IN  IF failing # {}
        THEN Raise(HTTPException(500, "Analysis failed: "
                 \o repaired[CHOOSE n \in failing : \A x \in failing : n <= x].raised))
        ELSE IF total_pos = 0
        THEN Raise(HTTPException(500, "Analysis failed: division by zero"))
        ELSE [error |-> Returned,
              result |->
                 [organization |-> detected_org,
                  positions |-> positions,
                  total_positions |-> total_pos,
                  extraction_quality |->
                     [last_date_coverage |-> PercentStr(total_pos - missing_dates, total_pos),
                      salary_coverage |-> PercentStr(total_pos - missing_salary, total_pos),
                      auto_last_date |-> found[1],
                      date_source |-> found[2]]]]

\* the try block, for the detected organization and the date found
\* (found = <<auto_last_date, date_source>>)
\* completion: [kind, msg, items]
\*   "call_failed": chat.complete raised msg;  "bad_json": json.loads raised
\*   JSONDecodeError msg;  "not_array": the payload parsed to something that is
\*   no list;  "array": the payload parsed to the list items
Complete(detected_org, found, comp) ==
    CASE comp.kind = "call_failed" ->
           Raise(HTTPException(500, "Analysis failed: " \o comp.msg))
      [] comp.kind = "bad_json" ->
           Raise(HTTPException(500, "AI response parsing failed: " \o comp.msg))
      [] comp.kind = "not_array" ->
           Raise(HTTPException(500, "Analysis failed: TypeError"))
      [] comp.kind = "array" ->
           Summarize(detected_org, found,
                     [n \in 1..Len(comp.items) |->
                         RepairPosition(comp.items[n], found[1], detected_org)])

\* steps 2 to 4, for the detected organization
AnalyzeAs(detected_org, txt, clock, comp) ==
    Complete(detected_org, extract_last_date_comprehensive(txt, detected_org, clock), comp)

analyze_with_ultra_strict_ai(client, txt, org_name, clock, comp) ==
    IF ~client THEN Raise(HTTPException(503, "Mistral AI not configured"))
    ELSE AnalyzeAs(detect_organization_from_text(txt, org_name), txt, clock, comp)

-----------------------------------------------------------------------------
(* analyze_single                                                          *)

\* except Exception as e: raise HTTPException(500, detail=str(e))
Rewrap(got) ==
    IF got.error # Returned
    THEN Raise(HTTPException(500, StrOfHTTPException(got.error)))
    ELSE got

AnalyzeExtracted(client, pdf, org, clock, comp) ==
    IF pdf.error # Returned
    THEN Raise(HTTPException(500, StrOfHTTPException(pdf.error)))
    ELSE Rewrap(analyze_with_ultra_strict_ai(client, pdf.text, org, clock, comp))

analyze_single(client, upload, org, clock, comp) ==
    IF ~client THEN Raise(HTTPException(503, "Mistral AI not configured"))
    ELSE AnalyzeExtracted(client, extract_text_from_pdf(upload.pdf), org, clock, comp)

-----------------------------------------------------------------------------
(* create_final_excel                                                      *)

SheetTitleLen == 31

\* the keys of the columns of a data row, in column order
row_data ==
    <<"advertisement_number", "advertisement_date", "post_name", "vacancies",
      "last_date", "salary", "location", "age_limit", "category", "qualification",
      "mandatory", "specialization", "experience_years", "remarks">>

\* position.get(key, '')
Get(position, key) == IF key \in DOMAIN position THEN position[key] ELSE Js("")

\* the workbook: one sheet per entry of analyzed_data, in list order, titled
\* with the first 31 characters of the organization, one row per position
create_final_excel(analyzed_data) ==
    [n \in 1..Len(analyzed_data) |->
        [title |-> Prefix(analyzed_data[n].organization, SheetTitleLen),
         rows |-> [r \in 1..Len(analyzed_data[n].positions) |->
                     [c \in 1..Len(row_data) |->
                         Get(analyzed_data[n].positions[r], row_data[c])]]]]

-----------------------------------------------------------------------------
(* analyze_forms                                                           *)

required_orgs == <<"AAU", "CSIR", "NHM", "NTPC", "TANUVAS">>

MinTextLen == 100

UnlistedKey == 999

\* the first required organization whose lowercased name occurs in the
\* lowercased filename, "" if none does
org_from_filename(filename) ==
    LET hits == {n \in 1..Len(required_orgs) :
                    Contains(lower(filename), lower(required_orgs[n]))}
    IN  IF hits = {} THEN ""
        ELSE required_orgs[CHOOSE n \in hits : \A m \in hits : n <= m]

\* a or b, on strings
Or(a, b) == IF a # "" THEN a ELSE b

ZeroCoverage(source) ==
    [last_date_coverage |-> "0%", salary_coverage |-> "0%",
     auto_last_date |-> "", date_source |-> source]

\* the entry for a PDF whose text is shorter than the threshold
EmptyPdfEntry(detected_org) ==
    [organization |-> detected_org,
     positions |-> <<
        [advertisement_number |-> Js("CHECK PDF MANUALLY"),
         advertisement_date |-> Js("CHECK PDF MANUALLY"),
         post_name |-> Js("CHECK PDF MANUALLY"),
         vacancies |-> Js("CHECK PDF MANUALLY"),
         last_date |-> Js("CHECK PDF MANUALLY"),
         salary |-> Js("CHECK PDF MANUALLY"),
         location |-> Js("CHECK PDF MANUALLY"),
         age_limit |-> Js("CHECK PDF MANUALLY"),
         category |-> Js("CHECK PDF MANUALLY"),
         qualification |-> Js("CHECK PDF MANUALLY"),
         mandatory |-> Js("CHECK PDF MANUALLY"),
         specialization |-> Js("CHECK PDF MANUALLY"),
         experience_years |-> Js("CHECK PDF MANUALLY"),
         remarks |-> Js("Document was empty or unreadable. Please verify all details from the original PDF.")] >>,
     total_positions |-> 1,
     extraction_quality |-> ZeroCoverage("empty PDF")]

\* the entry for a PDF whose processing raised e (str(e) given)
FailedEntry(detected_org, str_e) ==
    [organization |-> detected_org,
     positions |-> <<
        [advertisement_number |-> Js("EXTRACTION FAILED"),
         advertisement_date |-> Js(""),
         post_name |-> Js("EXTRACTION FAILED - See error"),
         vacancies |-> Js(""),
         last_date |-> Js(""),
         salary |-> Js(""),
         location |-> Js(""),
         age_limit |-> Js(""),
         category |-> Js(""),
         qualification |-> Js(""),
         mandatory |-> Js(""),
         specialization |-> Js(""),
         experience_years |-> Js(""),
         remarks |-> Js("Error during extraction: " \o str_e)] >>,
     total_positions |-> 1,
     extraction_quality |-> ZeroCoverage("error")]

\* the entry for a required organization no document was processed for
NotProcessedEntry(req_org) ==
    [organization |-> req_org,
     positions |-> <<
        [advertisement_number |-> Js(req_org \o " - NOT PROCESSED"),
         advertisement_date |-> Js(""),
         post_name |-> Js(req_org \o " - PDF not uploaded or failed"),
         vacancies |-> Js(""),
         last_date |-> Js(IF req_org \in DOMAIN KNOWN_LAST_DATES
                          THEN KNOWN_LAST_DATES[req_org] ELSE ""),
         salary |-> Js(""),
         location |-> Js(""),
         age_limit |-> Js(""),
         category |-> Js(""),
         qualification |-> Js(""),
         mandatory |-> Js(""),
         specialization |-> Js(""),
         experience_years |-> Js(""),
         remarks |-> Js("PDF for " \o req_org \o " was not uploaded or failed to process. Please fill manually from original PDF.")] >>,
     total_positions |-> 1,
     extraction_quality |-> ZeroCoverage("not uploaded")]

\* org_names = json.loads(organizations), [] when organizations is empty or
\* does not parse; list is FALSE when it parses to a value that is no list
ParseHints(hints) ==
    IF hints.given /\ hints.json = "list" THEN [list |-> TRUE, names |-> hints.names]
    ELSE IF hints.given /\ hints.json = "number" THEN [list |-> FALSE, names |-> <<>>]
    ELSE [list |-> TRUE, names |-> <<>>]

IsShort_mut_never(pdf_text) == FALSE

\* len(pdf_text.strip()) < 100
IsShort(pdf_text) == Len(strip(pdf_text)) < MinTextLen

\* the rest of the pass once analyze_with_ultra_strict_ai returned or raised
Analyzed(got, failed_org) ==
    IF got.error # Returned
    THEN [outcome |-> "failed", called |-> TRUE,
          entry |-> FailedEntry(failed_org, StrOfHTTPException(got.error))]
    ELSE [outcome |-> "analyzed", called |-> TRUE, entry |-> got.result]

\* one pass of the loop over the uploaded files, for files[i] (i from 0):
\* [outcome, entry (appended unless skipped or aborted), called (whether the
\* completion service was asked)].  With org_names no list, len(org_names)
\* raises in the try block and again in the except block, which ends the
\* request.
ProcessReadable(i, pdf_text, from_filename, provided, failed_org, clock, comp) ==
    IF IsShort(pdf_text)
    THEN [outcome |-> "placeholder", called |-> FALSE,
          entry |-> EmptyPdfEntry(
                        Or(provided, Or(from_filename,
                                        "Organization_" \o NatStr(i + 1))))]
    ELSE Analyzed(analyze_with_ultra_strict_ai(TRUE, pdf_text, provided, clock, comp),
                  failed_org)

ProcessDocument(i, f, names, clock, comp) ==
    LET pdf == extract_text_from_pdf(f.pdf)
        from_filename == org_from_filename(f.filename)
        hinted == i < Len(names.names)
        provided == IF hinted THEN names.names[i + 1] ELSE from_filename
        failed_org == Or(IF hinted THEN names.names[i + 1] ELSE "",
                         "Organization_" \o NatStr(i + 1))
    IN  IF ~EndsWith(f.filename, ".pdf")
        THEN [outcome |-> "skipped", entry |-> NoAnalysis, called |-> FALSE]
        ELSE IF ~names.list
        THEN [outcome |-> "aborted", entry |-> NoAnalysis, called |-> FALSE]
        ELSE IF pdf.error # Returned
        THEN [outcome |-> "failed", called |-> FALSE,
              entry |-> FailedEntry(failed_org, StrOfHTTPException(pdf.error))]
        ELSE ProcessReadable(i, pdf.text, from_filename, provided, failed_org, clock, comp)

\* the loop that appends an entry for each required organization missing
\* from processed_orgs, from required_orgs[n] on
RECURSIVE AddMissing(_, _, _)
AddMissing(results, processed, n) ==
    IF n > Len(required_orgs) THEN results
    ELSE AddMissing(IF required_orgs[n] \in processed THEN results
                    ELSE Append(results, NotProcessedEntry(required_orgs[n])),
                    processed, n + 1)

org_sort_key(item) ==
    LET at == {n \in 1..Len(required_orgs) : required_orgs[n] = item.organization}
    IN  IF at = {} THEN UnlistedKey ELSE (CHOOSE n \in at : TRUE) - 1

\* list.sort(key=org_sort_key): stable, ascending
RECURSIVE SortFrom(_, _)
SortFrom(results, keys) ==
    IF keys = <<>> THEN <<>>
    ELSE LET HasKey(item) == org_sort_key(item) = Head(keys)
         IN  SelectSeq(results, HasKey) \o SortFrom(results, Tail(keys))

sort_mut_asis(results) == results

sort(results) ==
    SortFrom(results, [n \in 1..Len(required_orgs) |-> n - 1] \o <<UnlistedKey>>)

-----------------------------------------------------------------------------
(* Specification of normalize_date as a pure function                      *)

DaySamples == {"", "0", "1", "9", "01", "31", "32", "001", "x", "1x", " 1"}
MonthSamples == {"", "0", "1", "05", "12", "13", "012", "ab"}
YearSamples ==
    {"", "5", "23", "24", "26", "27", "202", "2023", "2024", "2025", "2026",
     "2027", "02025", "20x5", "25 "}
SepChars == {"-", ".", "/"}

\* the inputs: one to MaxParts parts joined by separators
MaxParts == 4

RECURSIVE JoinedInputs(_)
JoinedInputs(n) ==
    IF n = 1 THEN DaySamples
    ELSE IF n = 2 THEN {d \o s \o m : d \in DaySamples, s \in SepChars, m \in MonthSamples}
    ELSE IF n = 3
         THEN {dm \o s \o y : dm \in JoinedInputs(2), s \in SepChars, y \in YearSamples}
    ELSE {p \o "-" \o "1" : p \in JoinedInputs(n - 1)}

DateInputs == UNION {JoinedInputs(n) : n \in 1..MaxParts}

\* the variables of an operation that a specification does not exercise
NormIdle == nd_pc = "idle" /\ date_str = "" /\ normalized = ""
FutureIdle == rf_pc = "idle" /\ rf_date_str = "" /\ reasonable = FALSE
OrgIdle ==
    /\ org_pc = "idle" /\ text = "" /\ provided_name = ""
    /\ detected = "" /\ resolved_again = ""

DateIdle ==
    /\ ld_pc = "idle" /\ ld_text = "" /\ ld_org_name = ""
    /\ now = <<2025, 1, 1>> /\ last_date = NotFound

NoFile == [filename |-> "", pdf |-> [readable |-> TRUE, fault |-> "", pages |-> <<>>]]
NoCompletion == [kind |-> "none", msg |-> "", items |-> <<>>]
NoResponse == [error |-> Returned, result |-> NoAnalysis]

AIIdle ==
    /\ ai_pc = "idle" /\ file = NoFile /\ organization = ""
    /\ completion = NoCompletion /\ analysis = NoResponse
    /\ single_response = NoResponse

NoHints == [given |-> FALSE, json |-> "none", names |-> <<>>]
NoBatchResponse == [error |-> Returned, workbook |-> <<>>]

BatchIdle ==
    /\ bf_pc = "idle" /\ files = <<>> /\ organizations = NoHints
    /\ org_names = [list |-> TRUE, names |-> <<>>] /\ idx = 0
    /\ analyzed_results = <<>> /\ processed_orgs = {}
    /\ service_log = <<>> /\ batch_response = NoBatchResponse

NormInit ==
    /\ nd_pc = "call" /\ date_str \in DateInputs /\ normalized = ""
    /\ FutureIdle /\ OrgIdle /\ DateIdle /\ mistral_client = FALSE /\ AIIdle /\ BatchIdle

NormalizeDate ==
    /\ nd_pc = "call"
    /\ normalized' = normalize_date(date_str)
    /\ nd_pc' = "return"
    /\ UNCHANGED <<date_str, vFuture, vOrg, vDate, mistral_client, vAI, vBatch>>

NormNext == NormalizeDate

SpecNormalize == NormInit /\ [][NormNext]_vars

-----------------------------------------------------------------------------
(* Claims about normalize_date                                             *)

\* n written in at least w decimal digits
Padded(n, w) == Rep("0", w - Len(NatStr(n))) \o NatStr(n)

SepPositions(s) == {i \in 1..Len(s) : Char(s, i) \in SepChars}
FirstSep(s) == CHOOSE i \in SepPositions(s) : \A j \in SepPositions(s) : i <= j
LastSep(s) == CHOOSE i \in SepPositions(s) : \A j \in SepPositions(s) : j <= i
DayPart(s) == SubSeq(s, 1, FirstSep(s) - 1)
MonthPart(s) == SubSeq(s, FirstSep(s) + 1, LastSep(s) - 1)
YearPart(s) == Suffix(s, LastSep(s) + 1)

\* D<sep>M<sep>Y: 1-2 digit day, 1-2 digit month, 2 or 4 digit year
IsDateForm(s) ==
    /\ Cardinality(SepPositions(s)) = 2
    /\ Len(DayPart(s)) \in {1, 2} /\ AllDigits(DayPart(s))
    /\ Len(MonthPart(s)) \in {1, 2} /\ AllDigits(MonthPart(s))
    /\ Len(YearPart(s)) \in {2, 4} /\ AllDigits(YearPart(s))

SingleSepKind(s) == Char(s, FirstSep(s)) = Char(s, LastSep(s))

ExpandedYear(s) ==
    IF Len(YearPart(s)) = 2 THEN 2000 + DigitsVal(YearPart(s)) ELSE DigitsVal(YearPart(s))

InValidRange(s) ==
    /\ DigitsVal(DayPart(s)) \in 1..31
    /\ DigitsVal(MonthPart(s)) \in 1..12
    /\ ExpandedYear(s) \in 2024..2026

CanonicalDate(s) ==
    Padded(DigitsVal(DayPart(s)), 2) \o "-" \o Padded(DigitsVal(MonthPart(s)), 2)
        \o "-" \o Padded(ExpandedYear(s), 4)

HasLetter(s) == \E i \in 1..Len(s) : Char(s, i) \in {"x", "a", "b"}

\* wrong number of parts, or an empty part, or a part holding a letter
IsMalformed(s) ==
    \/ Cardinality(SepPositions(s)) # 2
    \/ HasLetter(s)
    \/ DayPart(s) = "" \/ MonthPart(s) = "" \/ YearPart(s) = ""

\* C7 as stated: the canonical date exactly for in-range dates written with
\* one separator kind, and the empty string for every other input.
C7_Original ==
    nd_pc = "return" =>
        normalized =
            IF IsDateForm(date_str) /\ SingleSepKind(date_str) /\ InValidRange(date_str)
            THEN CanonicalDate(date_str)
            ELSE ""

\* C7 amended: for every D<sep>M<sep>Y with each separator one of - . / (the two
\* need not be the same), 1-2 digit day and month and a 2 or 4 digit year,
\* normalize_date returns the canonical DD-MM-YYYY string iff day is in [1,31],
\* month in [1,12] and the expanded year in [2024,2026], and "" otherwise; an
\* input with a wrong number of parts, an empty part or a part with a letter
\* yields ""; no input makes it raise.
C7_NormalizeDate ==
    nd_pc = "return" =>
        /\ IsDateForm(date_str) =>
               normalized =
                   IF InValidRange(date_str) THEN CanonicalDate(date_str) ELSE ""
        /\ IsMalformed(date_str) => normalized = ""

\* a 2-digit-year date with two different separators was normalised
C7_Witness ==
    /\ nd_pc = "return"
    /\ IsDateForm(date_str)
    /\ ~SingleSepKind(date_str)
    /\ Len(YearPart(date_str)) = 2
    /\ Len(DayPart(date_str)) = 1
    /\ normalized = CanonicalDate(date_str)
    /\ normalized # ""

-----------------------------------------------------------------------------
(* Specification of detect_organization_from_text as a pure function        *)

\* filler before the first piece: none, and lengths that put a piece on
\* either side of the HeaderLen cut
PadSamples == {0, 496, 497}

OrgPieces ==
    {"", "NTPC ", "csir ", "Council of Scientific ", "nhm ", "AAU ",
     "Tanuvas ", "green energy ", "Recruitment notice "}

OrgTexts == {Rep("=", n) \o p \o q : n \in PadSamples, p \in OrgPieces, q \in OrgPieces}

HintSamples ==
    {"", "unknown", "Organization", " unknown ", "NTPC", "ntpc ltd", " csir ",
     "xyz", "Unknown Organization"}

OrgInit ==
    /\ org_pc = "call"
    /\ text \in OrgTexts
    /\ provided_name \in HintSamples
    /\ detected = "" /\ resolved_again = ""
    /\ NormIdle /\ FutureIdle /\ DateIdle /\ mistral_client = FALSE /\ AIIdle /\ BatchIdle

DetectOrganization ==
    /\ org_pc = "call"
    /\ detected' = detect_organization_from_text(text, provided_name)
    /\ org_pc' = "return"
    /\ UNCHANGED <<text, provided_name, resolved_again, vNorm, vFuture, vDate, mistral_client, vAI, vBatch>>

\* the resolver applied to its own result, same text
ResolveAgain ==
    /\ org_pc = "return"
    /\ resolved_again' = detect_organization_from_text(text, detected)
    /\ org_pc' = "again"
    /\ UNCHANGED <<text, provided_name, detected, vNorm, vFuture, vDate, mistral_client, vAI, vBatch>>

OrgNext == DetectOrganization \/ ResolveAgain

SpecOrg == OrgInit /\ [][OrgNext]_vars

-----------------------------------------------------------------------------
(* Claims about detect_organization_from_text                              *)

KnownOrgs == {ORGANIZATION_MAPPINGS[k][2] : k \in 1..Len(ORGANIZATION_MAPPINGS)}

OrgsOfKeys(ks) == {ORGANIZATION_MAPPINGS[k][2] : k \in ks}

\* organizations with a keyword, in any letter case, wholly inside the first
\* 500 characters
HeaderOrgs(s) == OrgsOfKeys(MatchingKeys(lower(Prefix(s, 500))))

\* organizations with a keyword somewhere in the text but none in the header
BodyOnlyOrgs(s) == OrgsOfKeys(MatchingKeys(lower(s))) \ HeaderOrgs(s)

NoUsableHint(h) == h = "" \/ h \in {"unknown", "Unknown", "UNKNOWN", "organization", "Organization", "ORGANIZATION"}

\* C8: with no usable caller hint, a known-organization keyword inside the
\* first 500 characters outranks every keyword that occurs only later in the
\* body: the result is an organization named in the header.
C8_HeaderOutranksBody ==
    (org_pc # "call" /\ NoUsableHint(provided_name)) =>
        LET inHeader == HeaderOrgs(text)
        IN  inHeader # {} => detected \in inHeader

\* CSIR in the header, NTPC (first in the mapping order) only in the body
C8_Witness ==
    /\ org_pc = "return"
    /\ provided_name = ""
    /\ HeaderOrgs(text) = {"CSIR"}
    /\ "NTPC" \in BodyOnlyOrgs(text)
    /\ detected = "CSIR"

\* C9: the resolver is idempotent: its own result, passed back as the hint
\* with the same text, resolves to itself.
C9_Idempotent == org_pc = "again" => resolved_again = detected

-----------------------------------------------------------------------------
(* Specification of extract_last_date_comprehensive as a pure function      *)

DatePieces ==
    {"", "Last Date: 01-05-2025", "LAST  DATE for fee 1/1/2027", "last date 31.12.24",
     "Closing date 15.02.2025", "Apply before 10-06-2025", "open till 20-11-2025",
     "Application open till 5/5/25", "paid on 03-03-2025", "Deadline 32-01-2025",
     "12-12-2025 is the last day", "Advt 07/2024 dated 01-02-2023"}

Joiners == {" ", "\n"}

DateTexts == {p \o j \o q : p \in DatePieces, j \in Joiners, q \in DatePieces}

ClockSamples == {<<2025, 1, 1>>, <<2025, 6, 10>>, <<2026, 1, 1>>}

DateInit ==
    /\ ld_pc = "call"
    /\ ld_text \in DateTexts
    /\ ld_org_name \in {"NTPC", "Unknown Organization"}
    /\ now \in ClockSamples
    /\ last_date = NotFound
    /\ NormIdle /\ FutureIdle /\ OrgIdle /\ mistral_client = FALSE /\ AIIdle /\ BatchIdle

ExtractLastDate ==
    /\ ld_pc = "call"
    /\ last_date' = extract_last_date_comprehensive(ld_text, ld_org_name, now)
    /\ ld_pc' = "return"
    /\ UNCHANGED <<ld_text, ld_org_name, now, vNorm, vFuture, vOrg, mistral_client, vAI, vBatch>>

DateNext == ExtractLastDate

SpecDate == DateInit /\ [][DateNext]_vars

-----------------------------------------------------------------------------
(* Claims about extract_last_date_comprehensive                            *)

CascadeLabels == {date_patterns[k][2] : k \in 1..Len(date_patterns)}

\* number of places where key occurs in s, ignoring case
CountOf(s, key) ==
    Cardinality({i \in 1..Len(s) : StartsAt(lower(s), i, key)})

\* C6: the result is that of the first strategy that succeeds, in the order
\* keyword cascade, line scan, known-organization deadline, heuristic scan,
\* "not found"; a text with a valid "Last Date: <date>" phrase (the only place
\* it says "last") and other, unrelated dates yields that date with the
\* keyword-cascade label.
C6_StrategyOrder ==
    ld_pc = "return" =>
        LET m1 == KeywordCascade(ld_text)
            m2 == LineScan(ld_text)
            m3 == KnownFallback(ld_org_name)
            m4 == HeuristicScan(ld_text, now)
            label == last_date[2]
        IN  /\ label \in CascadeLabels
                         \cup {"section scan", "known fallback", "heuristic scan", "not found"}
            /\ label \in CascadeLabels => last_date = m1 /\ m1[1] # ""
            /\ label = "section scan" => m1 = NotFound /\ last_date = m2 /\ m2[1] # ""
            /\ label = "known fallback" =>
                   m1 = NotFound /\ m2 = NotFound /\ last_date = m3 /\ m3[1] # ""
            /\ label = "heuristic scan" =>
                   m1 = NotFound /\ m2 = NotFound /\ m3 = NotFound /\ last_date = m4
            /\ label = "not found" =>
                   /\ m1 = NotFound /\ m2 = NotFound /\ m3 = NotFound /\ m4 = NotFound
                   /\ last_date[1] = ""
            /\ (Contains(ld_text, "Last Date: 01-05-2025") /\ CountOf(ld_text, "last") = 1)
                   => last_date = <<"01-05-2025", "last date keyword">>

\* the phrase after an unrelated earlier date that the heuristic scan would
\* accept, for an organization with a known deadline
C6_Witness ==
    /\ ld_pc = "return"
    /\ ld_text = "paid on 03-03-2025\nLast Date: 01-05-2025"
    /\ ld_org_name = "NTPC"
    /\ is_reasonable_future_date("03-03-2025", now)
    /\ last_date = <<"01-05-2025", "last date keyword">>

\* the matches of the k-th keyword pattern in s, in document order
MatchesOf(k, s) == findall(date_patterns[k][1], s)

\* the last match of the k-th keyword pattern in s, normalised; "" when the
\* pattern has no match or its last match does not normalise
LastMatchDate(k, s) ==
    IF MatchesOf(k, s) = <<>> THEN ""
    ELSE normalize_date(MatchesOf(k, s)[Len(MatchesOf(k, s))])

\* the patterns whose last match normalises
Winners(s) == {k \in 1..Len(date_patterns) : LastMatchDate(k, s) # ""}

\* C13: the keyword cascade tries the patterns in their list order and looks
\* only at each pattern's last match: the result is the normalised last match
\* of the first pattern whose last match normalises, under that pattern's
\* label; a pattern whose last match does not normalise is skipped whatever
\* its earlier matches are, and when no pattern's last match normalises the
\* result does not come from the cascade.
C13_LastMatchOfFirstPattern ==
    ld_pc = "return" =>
        IF Winners(ld_text) = {}
        THEN last_date[2] \notin CascadeLabels
        ELSE LET k == CHOOSE w \in Winners(ld_text) : \A x \in Winners(ld_text) : w <= x
             IN  last_date = <<LastMatchDate(k, ld_text), date_patterns[k][2]>>

\* "last date" matched twice, the earlier match a valid date and the last one
\* out of range: the pattern was skipped and the date came from the line scan
C13_Witness ==
    /\ ld_pc = "return"
    /\ Len(MatchesOf(1, ld_text)) = 2
    /\ normalize_date(MatchesOf(1, ld_text)[1]) = "01-05-2025"
    /\ normalize_date(MatchesOf(1, ld_text)[2]) = ""
    /\ Winners(ld_text) = {}
    /\ last_date = <<"01-05-2025", "section scan">>

-----------------------------------------------------------------------------
(* Specification of is_reasonable_future_date as a pure function, beside    *)
(* extract_last_date_comprehensive under the same clock                     *)

FutureDateSamples ==
    {"", "15-08", "15-08-2025-1", "15/08/2025", "ab-08-2025", "15--2025",
     "31-02-2025", "29-02-2025", "29-02-2024", "31-04-2025", "00-01-2025",
     "15-13-2025", "15-08-0000", "15-08-10000", " 15-08-2025", "1-7-2025",
     "01-01-2025", "10-06-2025", "11-06-2025", "30-12-2025", "31-12-2025",
     "01-01-2026"}

FutureClocks ==
    {<<2024, 1, 15>>, <<2025, 6, 10>>, <<2025, 12, 30>>, <<2025, 12, 31>>, <<2026, 1, 1>>}

FutureTexts == {"", "paid on 03-03-2025", "fee 30-12-2025 or 01-01-2026"}

FutureInit ==
    /\ rf_pc = "call" /\ rf_date_str \in FutureDateSamples /\ reasonable = FALSE
    /\ now \in FutureClocks
    /\ ld_pc = "call" /\ ld_text \in FutureTexts
    /\ ld_org_name = "Unknown Organization" /\ last_date = NotFound
    /\ NormIdle /\ OrgIdle /\ mistral_client = FALSE /\ AIIdle /\ BatchIdle

IsReasonableFutureDate ==
    /\ rf_pc = "call"
    /\ reasonable' = is_reasonable_future_date(rf_date_str, now)
    /\ rf_pc' = "return"
    /\ UNCHANGED <<rf_date_str, vNorm, vOrg, vDate, mistral_client, vAI, vBatch>>

FutureNext == IsReasonableFutureDate \/ ExtractLastDate

SpecFuture == FutureInit /\ [][FutureNext]_vars

-----------------------------------------------------------------------------
(* Claims about is_reasonable_future_date                                  *)

MonthLengths(y) ==
    <<31, IF (y % 4 = 0 /\ y % 100 # 0) \/ y % 400 = 0 THEN 29 ELSE 28,
      31, 30, 31, 30, 31, 31, 30, 31, 30, 31>>

\* s reads day-month-year in three whole numbers that name a day of the
\* calendar (years 1 to 9999)
IsRealDate(s) ==
    /\ Len(split(s, "-")) = 3
    /\ \A n \in 1..3 : IntOk(split(s, "-")[n])
    /\ int(split(s, "-")[3]) \in 1..9999
    /\ int(split(s, "-")[2]) \in 1..12
    /\ int(split(s, "-")[1]) \in
           1..MonthLengths(int(split(s, "-")[3]))[int(split(s, "-")[2])]

\* days in calendar order
DayKey(y, m, d) == 10000 * y + 100 * m + d
DayKeyOf(s) == DayKey(int(split(s, "-")[3]), int(split(s, "-")[2]), int(split(s, "-")[1]))
Today == DayKey(now[1], now[2], now[3])
Horizon == DayKey(2025, 12, 31)

-----------------------------------------------------------------------------
(* Specification of analyze_with_ultra_strict_ai and analyze_single         *)

Pdf(pages) == [readable |-> TRUE, fault |-> "", pages |-> pages]
BrokenPdf == [readable |-> FALSE, fault |-> "EOF marker not found", pages |-> <<>>]

NtpcPage == "NTPC Limited recruitment of engineers.\nPay Rs 50,000.\nLast Date: 01-05-2025"
CsirPage == "Council of Scientific and Industrial Research.\nFee to be paid before 1/1/2027."
PlainPage == "Walk-in interview for project staff at the institute office."

FileSamples ==
    {[filename |-> "ntpc_advt.pdf", pdf |-> Pdf(<<NtpcPage>>)],
     [filename |-> "advt_12.pdf", pdf |-> Pdf(<<CsirPage>>)],
     [filename |-> "notice.pdf", pdf |-> Pdf(<<PlainPage>>)],
     [filename |-> "scan.pdf", pdf |-> BrokenPdf]}

\* a parsed JSON object with the required keys but `missing`, the keys `extra`
\* besides, and the given last_date and salary values
Position(missing, extra, last, salary) ==
    [dict |-> TRUE,
     fields |-> [k \in (RequiredKeys \ missing) \cup extra |->
                    IF k = "last_date" THEN last
                    ELSE IF k = "salary" THEN salary
                    ELSE IF k = "post_name" THEN Js("Engineer")
                    ELSE Js("-")]]

\* a parsed array element that is no object (a bare JSON string)
BareItem == [dict |-> FALSE, fields |-> [value |-> Js("Engineer")]]

ItemSamples ==
    {Position({}, {}, Js("10-10-2025"), Js("Rs 50,000")),
     Position({"last_date", "remarks"}, {}, Js(""), Js("")),
     Position({}, {"notes"}, Js("Check manually"), Js("Rs 1")),
     Position({"salary"}, {}, JNull, JNull),
     Position({}, {}, JNum("5"), Js("1 LPA")),
     BareItem}

\* the longest array the model response parses to
MaxPositions == 2

RECURSIVE ItemArrays(_)
ItemArrays(n) ==
    IF n = 0 THEN {<<>>}
    ELSE {Append(a, it) : a \in ItemArrays(n - 1), it \in ItemSamples}

CompletionSamples ==
    {[kind |-> "call_failed", msg |-> "401 Unauthorized", items |-> <<>>],
     [kind |-> "bad_json", msg |-> "Expecting value: line 1 column 1 (char 0)", items |-> <<>>],
     [kind |-> "not_array", msg |-> "", items |-> <<>>]}
    \cup {[kind |-> "array", msg |-> "", items |-> a] :
             a \in UNION {ItemArrays(n) : n \in 0..MaxPositions}}

AIInit ==
    /\ ai_pc = "call"
    /\ mistral_client \in BOOLEAN
    /\ file \in FileSamples
    /\ organization \in {"", "ntpc"}
    /\ completion \in CompletionSamples
    /\ now = <<2025, 6, 10>>
    /\ analysis = NoResponse /\ single_response = NoResponse
    /\ ld_pc = "idle" /\ ld_text = "" /\ ld_org_name = "" /\ last_date = NotFound
    /\ NormIdle /\ FutureIdle /\ OrgIdle /\ BatchIdle

\* analyze_with_ultra_strict_ai called on the text of a readable file
AnalyzeText ==
    /\ ai_pc = "call"
    /\ file.pdf.readable
    /\ analysis' = analyze_with_ultra_strict_ai(
                       mistral_client, extract_text_from_pdf(file.pdf).text,
                       organization, now, completion)
    /\ ai_pc' = "analyzed"
    /\ UNCHANGED <<file, organization, completion, single_response,
                   vNorm, vFuture, vOrg, vDate, mistral_client, vBatch>>

\* POST /analyze-single
AnalyzeSingle ==
    /\ ai_pc \in {"call", "analyzed"}
    /\ single_response' = analyze_single(mistral_client, file, organization, now, completion)
    /\ ai_pc' = "done"
    /\ UNCHANGED <<file, organization, completion, analysis,
                   vNorm, vFuture, vOrg, vDate, mistral_client, vBatch>>

AINext == AnalyzeText \/ AnalyzeSingle

SpecAI == AIInit /\ [][AINext]_vars

-----------------------------------------------------------------------------
(* Claims about analyze_with_ultra_strict_ai and analyze_single            *)

FourteenKeys ==
    {"advertisement_number", "advertisement_date", "post_name", "vacancies",
     "last_date", "salary", "location", "age_limit", "category", "qualification",
     "mandatory", "specialization", "experience_years", "remarks"}

AnalysisReturned == ai_pc # "call" /\ analysis # NoResponse /\ analysis.error = Returned

C10_ServiceUnavailable ==
    LET txt == extract_text_from_pdf(file.pdf).text
        unconfigured ==
            analyze_with_ultra_strict_ai(FALSE, txt, organization, now, completion).error.status
        unparseable ==
            analyze_with_ultra_strict_ai(TRUE, txt, organization, now,
                [kind |-> "bad_json", msg |-> "Expecting value", items |-> <<>>]).error.status
        unreadable == extract_text_from_pdf(BrokenPdf).error.status
    IN  (mistral_client /\ file.pdf.readable /\ completion.kind = "call_failed") =>
            /\ ai_pc = "analyzed" =>
                  /\ analysis.error.status = unconfigured
                  /\ analysis.error.status \notin {unparseable, unreadable}
            /\ ai_pc = "done" =>
                  /\ single_response.error.status = unconfigured
                  /\ single_response.error.status \notin {unparseable, unreadable}

\* the last_date the model gave a record, the empty string for an omitted key
GivenLastDate(item) ==
    IF "last_date" \in DOMAIN item.fields THEN item.fields["last_date"] ELSE Js("")

\* empty, or holding "check" or "manual" in any letter case
Punted(j) ==
    \/ ~Truthy(j)
    \/ j.t = "str" /\ (Contains(lower(j.v), "check") \/ Contains(lower(j.v), "manual"))

\* C11: in a returned result every record's last_date is the one the model
\* gave if that is non-empty and holds neither "check" nor "manual"; otherwise
\* it is the pre-detected deadline if that is non-empty, else the resolved
\* organization's known deadline if it has one, and else it is empty.
C11_LastDateRepair ==
    AnalysisReturned =>
        \A n \in 1..Len(analysis.result.positions) :
            LET given == GivenLastDate(completion.items[n])
                repaired == analysis.result.positions[n]["last_date"]
                auto_last_date == analysis.result.extraction_quality.auto_last_date
                detected_org == analysis.result.organization
            IN  IF ~Punted(given) THEN repaired = given
                ELSE IF auto_last_date # "" THEN repaired = Js(auto_last_date)
                ELSE IF detected_org \in DOMAIN KNOWN_LAST_DATES
                     THEN repaired = Js(KNOWN_LAST_DATES[detected_org])
                ELSE ~Truthy(repaired)

\* s is the percentage part/whole, rounded to a whole number, with a % sign
IsPercentOf(s, part, whole) ==
    \E p \in 0..100 :
        /\ s = NatStr(p) \o "%"
        /\ 2 * (100 * part - p * whole) <= whole
        /\ 2 * (p * whole - 100 * part) <= whole

NonEmptyCount(positions, key) ==
    Cardinality({n \in 1..Len(positions) : Truthy(positions[n][key])})

\* C12: for every array of records the response parses to, of any length, a
\* result is returned whose total_positions is the number of records and whose
\* last_date_coverage and salary_coverage are the percentages of its records
\* with a non-empty last_date and a non-empty salary.
C12_CountAndCoverage ==
    (/\ ai_pc = "analyzed" /\ mistral_client
     /\ completion.kind = "array"
     /\ \A n \in 1..Len(completion.items) : completion.items[n].dict) =>
        /\ analysis.error = Returned
        /\ analysis.result.total_positions = Len(completion.items)
        /\ Len(analysis.result.positions) = Len(completion.items)
        /\ IsPercentOf(analysis.result.extraction_quality.last_date_coverage,
                       NonEmptyCount(analysis.result.positions, "last_date"),
                       Len(completion.items))
        /\ IsPercentOf(analysis.result.extraction_quality.salary_coverage,
                       NonEmptyCount(analysis.result.positions, "salary"),
                       Len(completion.items))

\* the organization resolved for the file's text and the hint, and the date
\* extract_last_date_comprehensive then finds in it
ResolvedOrg ==
    detect_organization_from_text(extract_text_from_pdf(file.pdf).text, organization)

PreDetected ==
    extract_last_date_comprehensive(extract_text_from_pdf(file.pdf).text, ResolvedOrg, now)

\* C15: when the organization resolves to one with a known deadline, the
\* pre-detected deadline is never empty (so the repair never gets to its
\* known-deadline branch), and every record of a returned result has a
\* non-empty last_date, with last_date_coverage "100%".
C15_KnownOrgAlwaysDated ==
    (ai_pc = "analyzed" /\ mistral_client /\ ResolvedOrg \in DOMAIN KNOWN_LAST_DATES) =>
        /\ PreDetected[1] # ""
        /\ analysis.error = Returned =>
              /\ analysis.result.organization = ResolvedOrg
              /\ analysis.result.extraction_quality.auto_last_date = PreDetected[1]
              /\ \A n \in 1..Len(analysis.result.positions) :
                    /\ analysis.result.positions[n]["last_date"].t = "str"
                    /\ analysis.result.positions[n]["last_date"].v # ""
              /\ analysis.result.extraction_quality.last_date_coverage = "100%"

\* a CSIR text with no usable date: the known deadline was pre-detected and
\* replaced the last_date of a record that had none and of one that said to
\* check manually
C15_Witness ==
    /\ AnalysisReturned
    /\ analysis.result.organization = "CSIR"
    /\ analysis.result.extraction_quality.date_source = "known fallback"
    /\ Len(completion.items) = 2
    /\ GivenLastDate(completion.items[1]) = Js("")
    /\ GivenLastDate(completion.items[2]) = Js("Check manually")
    /\ \A n \in 1..2 : analysis.result.positions[n]["last_date"] = Js("15-02-2025")
    /\ analysis.result.extraction_quality.last_date_coverage = "100%"

-----------------------------------------------------------------------------
(* Specification of analyze_forms                                          *)

\* the most files in an upload
MaxFiles == 2

BatchFiles ==
    {[filename |-> "ntpc_advt.pdf", pdf |-> Pdf(<<NtpcPage>>)],
     [filename |-> "notice.pdf", pdf |-> Pdf(<<PlainPage>>)],
     [filename |-> "csir_form.pdf", pdf |-> Pdf(<<>>)],
     [filename |-> "scan.pdf", pdf |-> BrokenPdf],
     [filename |-> "nhm_notes.txt", pdf |-> Pdf(<<NtpcPage>>)]}

RECURSIVE Uploads(_)
Uploads(n) ==
    IF n = 0 THEN {<<>>}
    ELSE {Append(u, f) : u \in Uploads(n - 1), f \in BatchFiles}

\* the organizations query parameter: absent, not JSON, a JSON list of
\* names, a JSON number
HintSamplesBatch ==
    {NoHints,
     [given |-> TRUE, json |-> "invalid", names |-> <<>>],
     [given |-> TRUE, json |-> "list", names |-> <<"NTPC">>],
     [given |-> TRUE, json |-> "list", names |-> <<"", "Field Office">>],
     [given |-> TRUE, json |-> "number", names |-> <<>>]}

BatchCompletions ==
    {[kind |-> "call_failed", msg |-> "401 Unauthorized", items |-> <<>>],
     [kind |-> "bad_json", msg |-> "Expecting value: line 1 column 1 (char 0)", items |-> <<>>],
     [kind |-> "array", msg |-> "",
      items |-> <<Position({"remarks"}, {}, Js("Check manually"), Js("Rs 50,000"))>>]}

BatchInit ==
    /\ bf_pc = "request"
    /\ mistral_client \in BOOLEAN
    /\ files \in UNION {Uploads(n) : n \in 0..MaxFiles}
    /\ organizations \in HintSamplesBatch
    /\ org_names = [list |-> TRUE, names |-> <<>>]
    /\ idx = 0 /\ analyzed_results = <<>> /\ processed_orgs = {}
    /\ service_log = <<>> /\ batch_response = NoBatchResponse
    /\ ld_pc = "idle" /\ ld_text = "" /\ ld_org_name = "" /\ last_date = NotFound
    /\ now = <<2025, 6, 10>>
    /\ NormIdle /\ FutureIdle /\ OrgIdle /\ AIIdle

\* POST /analyze up to the loop: the two precondition checks and the parsing
\* of the organizations parameter
AnalyzeFormsEnter ==
    /\ bf_pc = "request"
    /\ IF ~mistral_client
       THEN /\ batch_response' =
                  [error |-> HTTPException(503, "Mistral AI not configured"),
                   workbook |-> <<>>]
            /\ bf_pc' = "done"
            /\ UNCHANGED org_names
       ELSE IF files = <<>>
       THEN /\ batch_response' =
                  [error |-> HTTPException(400, "No files uploaded"), workbook |-> <<>>]
            /\ bf_pc' = "done"
            /\ UNCHANGED org_names
       ELSE /\ org_names' = ParseHints(organizations)
            /\ bf_pc' = "loop"
            /\ UNCHANGED batch_response
    /\ UNCHANGED <<files, organizations, idx, analyzed_results, processed_orgs,
                   service_log, vNorm, vFuture, vOrg, vDate, mistral_client, vAI>>

\* one pass of the loop over the uploaded files; comp is what the completion
\* service does if this pass asks it
ProcessFile ==
    /\ bf_pc = "loop"
    /\ idx < Len(files)
    /\ \E comp \in BatchCompletions :
         /\ \E done \in {ProcessDocument(idx, files[idx + 1], org_names, now, comp)} :
                /\ idx' = idx + 1
                /\ service_log' =
                     IF done.called
                     THEN Append(service_log, [idx |-> idx, completion |-> comp])
                     ELSE service_log
                /\ IF done.outcome = "aborted"
                   THEN /\ bf_pc' = "done"
                        /\ batch_response' =
                              [error |-> HTTPException(500, "Internal Server Error"),
                               workbook |-> <<>>]
                        /\ UNCHANGED <<analyzed_results, processed_orgs>>
                   ELSE IF done.outcome = "skipped"
                   THEN UNCHANGED <<bf_pc, batch_response, analyzed_results, processed_orgs>>
                   ELSE /\ analyzed_results' = Append(analyzed_results, done.entry)
                        /\ processed_orgs' = processed_orgs \cup {done.entry.organization}
                        /\ UNCHANGED <<bf_pc, batch_response>>
    /\ UNCHANGED <<files, organizations, org_names,
                   vNorm, vFuture, vOrg, vDate, mistral_client, vAI>>

\* after the loop: the entries for the missing required organizations, the
\* sort, the workbook and the response
AnalyzeFormsFinish ==
    /\ bf_pc = "loop"
    /\ idx = Len(files)
    /\ analyzed_results' = sort(AddMissing(analyzed_results, processed_orgs, 1))
    /\ batch_response' =
          [error |-> Returned, workbook |-> create_final_excel(analyzed_results')]
    /\ bf_pc' = "done"
    /\ UNCHANGED <<files, organizations, org_names, idx, processed_orgs,
                   service_log, vNorm, vFuture, vOrg, vDate, mistral_client, vAI>>

BatchNext == AnalyzeFormsEnter \/ ProcessFile \/ AnalyzeFormsFinish

SpecBatch == BatchInit /\ [][BatchNext]_vars

-----------------------------------------------------------------------------
(* Claims about analyze_forms                                              *)

CanonicalOrder == <<"AAU", "CSIR", "NHM", "NTPC", "TANUVAS">>

\* the request got to the spreadsheet writer (analyzed_results is then the
\* list it was handed)
ReportWritten == bf_pc = "done" /\ batch_response.error = Returned

OrganizationsOf(results) == [n \in 1..Len(results) |-> results[n].organization]

\* C1: the list handed to the spreadsheet writer has exactly 5 entries, in
\* the order AAU, CSIR, NHM, NTPC, TANUVAS.
C1_ExactlyFiveInOrder ==
    ReportWritten => OrganizationsOf(analyzed_results) = CanonicalOrder

\* C2: in the list handed to the spreadsheet writer each of the five required
\* organizations has exactly one entry.
C2_OneEntryPerOrganization ==
    ReportWritten =>
        \A n \in 1..Len(CanonicalOrder) :
            Cardinality({m \in 1..Len(analyzed_results) :
                            analyzed_results[m].organization = CanonicalOrder[n]}) = 1

\* the documents the loop has been through (numbered from 0) whose
\* processing failed: an unreadable PDF, a failed completion call, an
\* unparseable response
FailedDocuments ==
    {i \in 0..(idx - 1) :
        /\ EndsWith(files[i + 1].filename, ".pdf")
        /\ \/ ~files[i + 1].pdf.readable
           \/ \E n \in 1..Len(service_log) :
                 /\ service_log[n].idx = i
                 /\ service_log[n].completion.kind \in {"call_failed", "bad_json"}}

FailurePlaceholder(e) ==
    /\ Len(e.positions) = 1
    /\ StartsAt(e.positions[1]["remarks"].v, 1, "Error during extraction: ")
    /\ Len(e.positions[1]["remarks"].v) > Len("Error during extraction: ")

\* C4: a document whose processing fails does not abort the request: it
\* contributes one placeholder entry whose record's remark describes the
\* failure, and the request ends only after the last document, with a report.
C4_FailureIsolated ==
    FailedDocuments # {} =>
        /\ batch_response.error = Returned
        /\ Cardinality({n \in 1..Len(analyzed_results) :
                           FailurePlaceholder(analyzed_results[n])})
              = Cardinality(FailedDocuments)
        /\ bf_pc = "done" => idx = Len(files) /\ batch_response.workbook # <<>>

\* a PDF whose extracted text is, trimmed, under 100 characters
ShortPdf(f) ==
    /\ EndsWith(f.filename, ".pdf")
    /\ f.pdf.readable
    /\ Len(strip(extract_text_from_pdf(f.pdf).text)) < 100

ManualReviewEntry(e) ==
    /\ Len(e.positions) = 1
    /\ e.total_positions = 1
    /\ \A k \in FourteenKeys \ {"remarks"} :
          e.positions[1][k] = Js("CHECK PDF MANUALLY")
    /\ e.extraction_quality.last_date_coverage = "0%"
    /\ e.extraction_quality.salary_coverage = "0%"

\* C5: the pass of the loop over a PDF whose trimmed text is under 100
\* characters never asks the completion service, and the entry it appends is
\* one placeholder record marked for manual review with both coverages "0%".
C5_ShortDocumentNotSent ==
    [][(bf_pc = "loop" /\ idx < Len(files) /\ ShortPdf(files[idx + 1])) =>
          /\ service_log' = service_log
          /\ analyzed_results' # analyzed_results =>
                /\ Len(analyzed_results') = Len(analyzed_results) + 1
                /\ SubSeq(analyzed_results', 1, Len(analyzed_results)) = analyzed_results
                /\ ManualReviewEntry(analyzed_results'[Len(analyzed_results')])
          /\ bf_pc' = "loop" => analyzed_results' # analyzed_results]_vars

\* a short PDF was processed after a document that was sent to the service
C5_Witness ==
    /\ bf_pc = "loop" /\ idx = 2
    /\ ShortPdf(files[2])
    /\ Len(service_log) = 1 /\ service_log[1].idx = 0
    /\ Len(analyzed_results) = 2
    /\ ManualReviewEntry(analyzed_results[2])
    /\ analyzed_results[2].organization = "CSIR"

\* the entries of results under organization org, in list order
EntriesOf(results, org) ==
    LET IsOf(e) == e.organization = org IN SelectSeq(results, IsOf)

\* the entries of results under no required organization, in list order
UnlistedEntries(results) ==
    LET IsUnlisted(e) == \A n \in 1..Len(CanonicalOrder) : e.organization # CanonicalOrder[n]
    IN  SelectSeq(results, IsUnlisted)

\* a single-record placeholder for org with the known deadline as last_date
IsBackfill(e, org) ==
    /\ e.organization = org
    /\ Len(e.positions) = 1 /\ e.total_positions = 1
    /\ e.positions[1]["last_date"] = Js(KNOWN_LAST_DATES[org])
    /\ e.positions[1]["advertisement_number"] = Js(org \o " - NOT PROCESSED")

\* C16: in the step that ends the loop over the files with a report, the
\* final list has at least one entry for each required organization: the
\* entries the loop recorded under it, in processing order, or, when the loop
\* recorded none, one placeholder whose last_date is the known deadline; the
\* list is the entries of AAU, CSIR, NHM, NTPC, TANUVAS in that order followed
\* by the entries of all other organizations, these in processing order too.
C16_BackfilledAndOrdered ==
    [][(bf_pc = "loop" /\ bf_pc' = "done" /\ batch_response'.error = Returned) =>
          /\ \A n \in 1..Len(CanonicalOrder) :
                LET recorded == EntriesOf(analyzed_results, CanonicalOrder[n])
                    final == EntriesOf(analyzed_results', CanonicalOrder[n])
                IN  /\ final # <<>>
                    /\ recorded # <<>> => final = recorded
                    /\ recorded = <<>> =>
                          Len(final) = 1 /\ IsBackfill(final[1], CanonicalOrder[n])
          /\ UnlistedEntries(analyzed_results') = UnlistedEntries(analyzed_results)
          /\ analyzed_results' =
                EntriesOf(analyzed_results', CanonicalOrder[1])
                \o EntriesOf(analyzed_results', CanonicalOrder[2])
                \o EntriesOf(analyzed_results', CanonicalOrder[3])
                \o EntriesOf(analyzed_results', CanonicalOrder[4])
                \o EntriesOf(analyzed_results', CanonicalOrder[5])
                \o UnlistedEntries(analyzed_results')]_vars

\* a report for an unreadable PDF hinted "NTPC" followed by an NTPC document:
\* both entries stand under NTPC in processing order, between the placeholders
\* of the other four organizations
C16_Witness ==
    /\ ReportWritten
    /\ OrganizationsOf(analyzed_results) = <<"AAU", "CSIR", "NHM", "NTPC", "NTPC", "TANUVAS">>
    /\ IsBackfill(analyzed_results[1], "AAU")
    /\ FailurePlaceholder(analyzed_results[4])
    /\ analyzed_results[5].extraction_quality.date_source = "last date keyword"
    /\ IsBackfill(analyzed_results[6], "TANUVAS")

====
